---- MODULE Spec2Model ----
(***************************************************************************)
(* Model of the dsrv-poap contract (src/src/contract.rs): the event        *)
(* registry (execute_register_event, build_event) and the badge issuer     *)
(* (execute_mint_badge) over the three maps EVENTS, ATTENDEES and BADGES,  *)
(* and instantiate and the count query (query_count) over the item STATE.  *)
(* Strings are sequences of Unicode code points; String::len() is the      *)
(* length of the UTF-8 encoding in bytes.                                  *)
(***************************************************************************)
EXTENDS Integers, Sequences, FiniteSets, TLC

\* STATE_ITEM is the item STATE of the source
VARIABLES EVENTS, ATTENDEES, BADGES, STATE_ITEM, now, msg, res, instantiated

vars == <<EVENTS, ATTENDEES, BADGES, STATE_ITEM, now, msg, res, instantiated>>

\* ------------------------------------------------------------------------
\* Bounds of the model and constants of the program
\* ------------------------------------------------------------------------

\* block times range over 0..MaxTime
MaxTime == 2

\* build_event: name.len() < 2 is NameTooShort
MinNameLen == 2

\* build_event: name.len() > 100 is NameTooLong
MaxNameLen == 100

Times == 0..MaxTime

\* ------------------------------------------------------------------------
\* Strings
\* ------------------------------------------------------------------------

\* number of bytes of the UTF-8 encoding of code point c
Utf8Len(c) ==
    IF c < 128 THEN 1
    ELSE IF c < 2048 THEN 2
    ELSE IF c < 65536 THEN 3
    ELSE 4

RECURSIVE BytesUpTo(_, _)
\* number of bytes of the first i characters of s
BytesUpTo(s, i) ==
    IF i = 0 THEN 0 ELSE Utf8Len(s[i]) + BytesUpTo(s, i - 1)

\* String::len(): the length of s in bytes
StrLen(s) == BytesUpTo(s, Len(s))

\* str::starts_with
StartsWith(s, prefix) ==
    /\ Len(s) >= Len(prefix)
    /\ SubSeq(s, 1, Len(prefix)) = prefix

\* the string made of n copies of code point c
Rep(c, n) == [i \in 1..n |-> c]

\* "https://"
HttpsScheme == <<104, 116, 116, 112, 115, 58, 47, 47>>

\* The strings of the model. A request carries the key of a string in this
\* table; the string itself is Text[key], a sequence of code points.
Text ==
    [x      |-> <<120>>,                            \* "x": 1 char, 1 byte
     e      |-> <<233>>,                            \* U+00E9: 1 char, 2 bytes
     amax   |-> Rep(97, MaxNameLen),                \* "a" MaxNameLen times
     aover  |-> Rep(97, MaxNameLen + 1),            \* one more "a"
     ewide  |-> Rep(233, (MaxNameLen \div 2) + 1),  \* more than MaxNameLen bytes
     https  |-> HttpsScheme \o <<120>>,             \* "https://x"
     http   |-> <<104, 116, 116, 112, 58, 47, 47, 102, 111, 111>>, \* "http://foo"
     party  |-> <<112, 97, 114, 116, 121>>]         \* "party"

\* LenOf[k] is the value of Text[k].len()
LenOf == [k \in DOMAIN Text |-> StrLen(Text[k])]

Names == {"x", "e", "amax", "aover", "ewide"}

Images == {"https", "http"}

Descriptions == {"party"}

\* callers (info.sender) and attendees; "Bob!" is no well-formed address
Senders == {"alice", "bob"}
WellFormed == {"alice", "bob"}
Attendees == {"alice", "Bob!"}

\* the counts of InstantiateMsg
Counts == {0, 17}

\* ------------------------------------------------------------------------
\* Results and maps
\* ------------------------------------------------------------------------

\* Err(ContractError::<kind>); "NotFound" and "GenericErr" are the StdError
\* variants wrapped in ContractError::Std
Err(kind) == [ok |-> FALSE, kind |-> kind]

\* Err(ContractError::InvalidImageURL(image))
InvalidImageURL(image) == [ok |-> FALSE, kind |-> "InvalidImageURL", url |-> image]

\* Ok(Response::new().add_attribute("register_event", name))
RegisterResponse(name) ==
    [ok |-> TRUE, kind |-> "Ok", attributes |-> <<"register_event", name>>]

\* Ok(Response::new().add_event(Event::new("mint-badge")...))
MintResponse(event, attendee) ==
    [ok |-> TRUE, kind |-> "Ok", events |-> <<"mint-badge", event, attendee>>]

\* a map without entries
EmptyMap == [k \in {} |-> k]

\* Map::save: the map with value stored under key
save(map, key, value) == (key :> value) @@ map

\* Map::may_load(..).is_some()
is_some(map, key) == key \in DOMAIN map

\* Api::addr_validate: the address itself when it is well-formed, a generic
\* error otherwise
addr_validate(attendee) ==
    IF attendee \in WellFormed
    THEN [ok |-> TRUE, addr |-> attendee]
    ELSE Err("GenericErr")

\* ------------------------------------------------------------------------
\* Event registry
\* ------------------------------------------------------------------------

\* start_time >= end_time
window_inverted_strict(start_time, end_time) == start_time > end_time

window_inverted(start_time, end_time) == start_time >= end_time

\* an event that ends in the current second taken as over
in_the_past_or_now(end_time, time) == end_time <= time

\* end_time < env.block.time.seconds()
in_the_past(end_time, time) == end_time < time

\* build_event with the image checked before the name
build_event_image_first(time, sender, name, image, description, start_time, end_time) ==
    IF ~StartsWith(Text[image], HttpsScheme) THEN InvalidImageURL(image)
    ELSE IF LenOf[name] < MinNameLen THEN Err("NameTooShort")
    ELSE IF LenOf[name] > MaxNameLen THEN Err("NameTooLong")
    ELSE IF window_inverted(start_time, end_time) THEN Err("StartBeforeEnd")
    ELSE IF in_the_past(end_time, time) THEN Err("EventAlreadyOver")
    ELSE [ok |-> TRUE,
          event |-> [owner |-> sender, name |-> name, image |-> image,
                     description |-> description,
                     start_time |-> start_time, end_time |-> end_time]]

\* build_event storing the two times in each other's place
build_event_times_swapped(time, sender, name, image, description, start_time, end_time) ==
    IF LenOf[name] < MinNameLen THEN Err("NameTooShort")
    ELSE IF LenOf[name] > MaxNameLen THEN Err("NameTooLong")
    ELSE IF ~StartsWith(Text[image], HttpsScheme) THEN InvalidImageURL(image)
    ELSE IF window_inverted(start_time, end_time) THEN Err("StartBeforeEnd")
    ELSE IF in_the_past(end_time, time) THEN Err("EventAlreadyOver")
    ELSE [ok |-> TRUE,
          event |-> [owner |-> sender, name |-> name, image |-> image,
                     description |-> description,
                     start_time |-> end_time, end_time |-> start_time]]

build_event(time, sender, name, image, description, start_time, end_time) ==
    IF LenOf[name] < MinNameLen THEN Err("NameTooShort")
    ELSE IF LenOf[name] > MaxNameLen THEN Err("NameTooLong")
    ELSE IF ~StartsWith(Text[image], HttpsScheme) THEN InvalidImageURL(image)
    ELSE IF window_inverted(start_time, end_time) THEN Err("StartBeforeEnd")
    ELSE IF in_the_past(end_time, time) THEN Err("EventAlreadyOver")
    ELSE [ok |-> TRUE,
          event |-> [owner |-> sender, name |-> name, image |-> image,
                     description |-> description,
                     start_time |-> start_time, end_time |-> end_time]]

\* EVENTS.may_load(name) is_some: never, whatever the map holds
already_registered_never(events, name) == FALSE

\* EVENTS.may_load(deps.storage, &name)?.is_some()
already_registered(events, name) == is_some(events, name)

\* execute_register_event letting the owner of an event register it again
execute_register_event_owner_again(events, time, sender, name, image, description, start_time, end_time) ==
    IF already_registered(events, name) /\ events[name].owner # sender
    THEN [res |-> Err("EventAlreadyRegistered"), EVENTS |-> events]
    ELSE LET built == build_event(time, sender, name, image, description,
                                  start_time, end_time)
         IN IF ~built.ok
            THEN [res |-> built, EVENTS |-> events]
            ELSE [res |-> RegisterResponse(name),
                  EVENTS |-> save(events, name, built.event)]

\* the result of the handler and the EVENTS map it leaves
execute_register_event(events, time, sender, name, image, description, start_time, end_time) ==
    IF already_registered(events, name)
    THEN [res |-> Err("EventAlreadyRegistered"), EVENTS |-> events]
    ELSE LET built == build_event(time, sender, name, image, description,
                                  start_time, end_time)
         IN IF ~built.ok
            THEN [res |-> built, EVENTS |-> events]
            ELSE [res |-> RegisterResponse(name),
                  EVENTS |-> save(events, name, built.event)]

\* ------------------------------------------------------------------------
\* Badge issuer
\* ------------------------------------------------------------------------

\* the owner check letting every caller through
not_owner_never(sender, data) == FALSE

\* info.sender != data.owner
not_owner(sender, data) == sender # data.owner

\* the start of the window not checked
not_started_never(time, data) == FALSE

\* env.block.time.seconds() < data.start_time
not_started(time, data) == time < data.start_time

\* the end of the window taken as exclusive
already_over_at_end(time, data) == time >= data.end_time

\* env.block.time.seconds() > data.end_time
already_over(time, data) == time > data.end_time

\* the duplicate check finding no badge, whatever the map holds
badge_issued_never(attendees, event, attendee) == FALSE

\* ATTENDEES.may_load(deps.storage, (&event, &attendee))?.is_some()
badge_issued(attendees, event, attendee) ==
    is_some(attendees, <<event, attendee>>)

\* the two writes, the one of BADGES replacing the attendee's badges of
\* other events
save_badge_one_per_attendee(attendees, badges, event, attendee, badge) ==
    [ATTENDEES |-> save(attendees, <<event, attendee>>, badge),
     BADGES |-> save([k \in {j \in DOMAIN badges : j[1] # attendee} |-> badges[k]],
                     <<attendee, event>>, badge)]

\* the two writes with the same key order in both maps
save_badge_same_key(attendees, badges, event, attendee, badge) ==
    [ATTENDEES |-> save(attendees, <<event, attendee>>, badge),
     BADGES |-> save(badges, <<event, attendee>>, badge)]

\* the two writes of a badge: ATTENDEES under (event, attendee), BADGES under
\* (attendee, event)
save_badge(attendees, badges, event, attendee, badge) ==
    [ATTENDEES |-> save(attendees, <<event, attendee>>, badge),
     BADGES |-> save(badges, <<attendee, event>>, badge)]

\* execute_mint_badge writing ATTENDEES before it looks for an earlier badge
execute_mint_badge_write_first(events, attendees, badges, time, sender, event, attendee, was_late) ==
    LET fail(err) == [res |-> err, ATTENDEES |-> attendees, BADGES |-> badges]
    IN  IF ~is_some(events, event) THEN fail(Err("NotFound"))
        ELSE LET data == events[event]
                 valid == addr_validate(attendee)
             IN IF not_owner(sender, data) THEN fail(Err("Unauthorized"))
                ELSE IF not_started(time, data) THEN fail(Err("EventNotStarted"))
                ELSE IF already_over(time, data) THEN fail(Err("EventAlreadyOver"))
                ELSE IF ~valid.ok THEN fail(valid)
                ELSE LET badge == [was_late |-> was_late]
                         saved == save_badge(attendees, badges, event,
                                             valid.addr, badge)
                     IN IF badge_issued(attendees, event, valid.addr)
                        THEN [res |-> Err("BadgeAlreadyIssued"),
                              ATTENDEES |-> saved.ATTENDEES,
                              BADGES |-> badges]
                        ELSE [res |-> MintResponse(event, valid.addr),
                              ATTENDEES |-> saved.ATTENDEES,
                              BADGES |-> saved.BADGES]

\* execute_mint_badge validating the attendee before the owner and the window
execute_mint_badge_validate_first(events, attendees, badges, time, sender, event, attendee, was_late) ==
    LET fail(err) == [res |-> err, ATTENDEES |-> attendees, BADGES |-> badges]
    IN  IF ~is_some(events, event) THEN fail(Err("NotFound"))
        ELSE LET data == events[event]
                 valid == addr_validate(attendee)
             IN IF ~valid.ok THEN fail(valid)
                ELSE IF not_owner(sender, data) THEN fail(Err("Unauthorized"))
                ELSE IF not_started(time, data) THEN fail(Err("EventNotStarted"))
                ELSE IF already_over(time, data) THEN fail(Err("EventAlreadyOver"))
                ELSE IF badge_issued(attendees, event, valid.addr)
                     THEN fail(Err("BadgeAlreadyIssued"))
                ELSE LET badge == [was_late |-> was_late]
                         saved == save_badge(attendees, badges, event,
                                             valid.addr, badge)
                     IN [res |-> MintResponse(event, valid.addr),
                         ATTENDEES |-> saved.ATTENDEES,
                         BADGES |-> saved.BADGES]

\* execute_mint_badge taking an event without record as one without owner
\* and window
execute_mint_badge_unknown_event(events, attendees, badges, time, sender, event, attendee, was_late) ==
    LET fail(err) == [res |-> err, ATTENDEES |-> attendees, BADGES |-> badges]
        known == is_some(events, event)
        valid == addr_validate(attendee)
    IN  IF known /\ not_owner(sender, events[event])
        THEN fail(Err("Unauthorized"))
        ELSE IF known /\ not_started(time, events[event])
        THEN fail(Err("EventNotStarted"))
        ELSE IF known /\ already_over(time, events[event])
        THEN fail(Err("EventAlreadyOver"))
        ELSE IF ~valid.ok THEN fail(valid)
        ELSE IF badge_issued(attendees, event, valid.addr)
             THEN fail(Err("BadgeAlreadyIssued"))
        ELSE LET badge == [was_late |-> was_late]
                 saved == save_badge(attendees, badges, event, valid.addr,
                                     badge)
             IN [res |-> MintResponse(event, valid.addr),
                 ATTENDEES |-> saved.ATTENDEES,
                 BADGES |-> saved.BADGES]

\* the result of the handler and the ATTENDEES and BADGES maps it leaves
execute_mint_badge(events, attendees, badges, time, sender, event, attendee, was_late) ==
    LET fail(err) == [res |-> err, ATTENDEES |-> attendees, BADGES |-> badges]
    IN  IF ~is_some(events, event) THEN fail(Err("NotFound"))
        ELSE LET data == events[event]
                 valid == addr_validate(attendee)
             IN IF not_owner(sender, data) THEN fail(Err("Unauthorized"))
                ELSE IF not_started(time, data) THEN fail(Err("EventNotStarted"))
                ELSE IF already_over(time, data) THEN fail(Err("EventAlreadyOver"))
                ELSE IF ~valid.ok THEN fail(valid)
                ELSE IF badge_issued(attendees, event, valid.addr)
                     THEN fail(Err("BadgeAlreadyIssued"))
                ELSE LET badge == [was_late |-> was_late]
                         saved == save_badge(attendees, badges, event,
                                             valid.addr, badge)
                     IN [res |-> MintResponse(event, valid.addr),
                         ATTENDEES |-> saved.ATTENDEES,
                         BADGES |-> saved.BADGES]

\* ------------------------------------------------------------------------
\* Instantiation and the count query
\* ------------------------------------------------------------------------

\* an Item nothing was saved to
EmptyItem == <<>>

\* the result of instantiate and the STATE item it leaves: the handler
\* records the contract version and does not read its message
instantiate(count) ==
    [res |-> [ok |-> TRUE, kind |-> "Ok"], STATE_ITEM |-> EmptyItem]

\* STATE.load(deps.storage)? and GetCountResponse { count: state.count }
query_count(state) ==
    IF state = EmptyItem
    THEN Err("NotFound")
    ELSE [ok |-> TRUE, kind |-> "Ok", count |-> state[1].count]

\* ------------------------------------------------------------------------
\* The state machine
\* ------------------------------------------------------------------------

NoMsg == [op |-> "none"]
NoRes == [ok |-> TRUE, kind |-> "none"]

\* the contract after instantiate(InstantiateMsg { count }) has returned;
\* instantiated keeps the message
Init ==
    \E count \in Counts :
        /\ instantiated = [count |-> count]
        /\ STATE_ITEM = instantiate(count).STATE_ITEM
        /\ EVENTS = EmptyMap
        /\ ATTENDEES = EmptyMap
        /\ BADGES = EmptyMap
        /\ now = 0
        /\ msg = NoMsg
        /\ res = NoRes

\* the chain produces the next block; requests run one at a time, each in
\* the block whose time is now
Tick ==
    /\ msg = NoMsg
    /\ now < MaxTime
    /\ now' = now + 1
    /\ UNCHANGED <<EVENTS, ATTENDEES, BADGES, STATE_ITEM, msg, res, instantiated>>

\* execute(ExecuteMsg::RegisterEvent {..}) with info.sender = sender and
\* env.block.time = now
RegisterEvent ==
    /\ msg = NoMsg
    /\ \E sender \in Senders, name \in Names, image \in Images,
          description \in Descriptions,
          start_time \in Times, end_time \in Times :
        LET out == execute_register_event(EVENTS, now, sender, name, image,
                                          description, start_time, end_time)
        IN  /\ msg' = [op |-> "register_event", sender |-> sender,
                       name |-> name, image |-> image,
                       description |-> description,
                       start_time |-> start_time, end_time |-> end_time]
            /\ res' = out.res
            /\ EVENTS' = out.EVENTS
            /\ UNCHANGED <<ATTENDEES, BADGES, STATE_ITEM, now, instantiated>>

\* execute(ExecuteMsg::MintBadge {..}) with info.sender = sender and
\* env.block.time = now
MintBadge ==
    /\ msg = NoMsg
    /\ \E sender \in Senders, event \in Names, attendee \in Attendees,
          was_late \in BOOLEAN :
        LET out == execute_mint_badge(EVENTS, ATTENDEES, BADGES, now, sender,
                                      event, attendee, was_late)
        IN  /\ msg' = [op |-> "mint_badge", sender |-> sender,
                       event |-> event, attendee |-> attendee,
                       was_late |-> was_late]
            /\ res' = out.res
            /\ ATTENDEES' = out.ATTENDEES
            /\ BADGES' = out.BADGES
            /\ UNCHANGED <<EVENTS, STATE_ITEM, now, instantiated>>

\* the result goes back to the caller and the request is over
Return ==
    /\ msg # NoMsg
    /\ msg' = NoMsg
    /\ res' = NoRes
    /\ UNCHANGED <<EVENTS, ATTENDEES, BADGES, STATE_ITEM, now, instantiated>>

\* query(QueryMsg::GetCount {}): the storage is read-only (Deps)
GetCount ==
    /\ msg = NoMsg
    /\ msg' = [op |-> "get_count"]
    /\ res' = query_count(STATE_ITEM)
    /\ UNCHANGED <<EVENTS, ATTENDEES, BADGES, STATE_ITEM, now, instantiated>>

Next == Tick \/ RegisterEvent \/ MintBadge \/ GetCount \/ Return

Spec == Init /\ [][Next]_vars

\* ------------------------------------------------------------------------
\* Properties
\* ------------------------------------------------------------------------

\* a step that runs a register request, a mint request
RegisterStep == msg = NoMsg /\ msg'.op = "register_event"
MintStep == msg = NoMsg /\ msg'.op = "mint_badge"

\* the state a register request, a mint request has just left
Registered == msg.op = "register_event"
Minted == msg.op = "mint_badge"

\* now lies in the closed window of the event
InWindow(data) == data.start_time <= now /\ now <= data.end_time

\* C1. Index symmetry: in every reachable state ATTENDEES holds value v under
\* (event, attendee) exactly when BADGES holds the same v under
\* (attendee, event).
C1_IndexSymmetry ==
    /\ \A k \in DOMAIN ATTENDEES :
          /\ <<k[2], k[1]>> \in DOMAIN BADGES
          /\ BADGES[<<k[2], k[1]>>] = ATTENDEES[k]
    /\ \A k \in DOMAIN BADGES :
          /\ <<k[2], k[1]>> \in DOMAIN ATTENDEES
          /\ ATTENDEES[<<k[2], k[1]>>] = BADGES[k]

\* a successful mint has left at least two badges
C1_Witness ==
    /\ Minted
    /\ res.ok
    /\ Cardinality(DOMAIN ATTENDEES) >= 2

\* C2. Idempotence of mint: once a badge exists for (event, attendee), a mint
\* for the same pair that passes the owner, window and address checks fails
\* with BadgeAlreadyIssued and leaves the badge as it was in both indexes,
\* whatever was_late it passes.
C2_MintIdempotent ==
    [][(/\ MintStep
        /\ <<msg'.event, msg'.attendee>> \in DOMAIN ATTENDEES
        /\ msg'.event \in DOMAIN EVENTS
        /\ msg'.sender = EVENTS[msg'.event].owner
        /\ InWindow(EVENTS[msg'.event])
        /\ addr_validate(msg'.attendee).ok)
       => (/\ res'.kind = "BadgeAlreadyIssued"
           /\ <<msg'.event, msg'.attendee>> \in DOMAIN ATTENDEES'
           /\ ATTENDEES'[<<msg'.event, msg'.attendee>>]
                = ATTENDEES[<<msg'.event, msg'.attendee>>]
           /\ <<msg'.attendee, msg'.event>> \in DOMAIN BADGES'
           /\ BADGES'[<<msg'.attendee, msg'.event>>]
                = ATTENDEES[<<msg'.event, msg'.attendee>>])]_vars

\* a second mint passing the other was_late was rejected
C2_Witness ==
    /\ Minted
    /\ res.kind = "BadgeAlreadyIssued"
    /\ ATTENDEES[<<msg.event, msg.attendee>>].was_late # msg.was_late
    /\ BADGES[<<msg.attendee, msg.event>>].was_late # msg.was_late

\* C3. Authorization: a mint for a registered event by a caller who is not
\* its owner fails with Unauthorized and writes no badge, at any time and for
\* any attendee and was_late.
C3_OnlyOwnerMints ==
    [][(/\ MintStep
        /\ msg'.event \in DOMAIN EVENTS
        /\ msg'.sender # EVENTS[msg'.event].owner)
       => (/\ res'.kind = "Unauthorized"
           /\ UNCHANGED <<ATTENDEES, BADGES>>)]_vars

\* a well-formed mint inside the window, for a pair without badge, by a caller
\* who is not the owner
C3_Witness ==
    /\ Minted
    /\ msg.event \in DOMAIN EVENTS
    /\ msg.sender # EVENTS[msg.event].owner
    /\ InWindow(EVENTS[msg.event])
    /\ addr_validate(msg.attendee).ok
    /\ <<msg.event, msg.attendee>> \notin DOMAIN ATTENDEES
    /\ res.kind = "Unauthorized"

\* C4. Temporal gate: a mint by the owner of a registered event for a
\* well-formed attendee without badge fails with EventNotStarted when
\* now < start_time, succeeds when start_time <= now <= end_time and fails
\* with EventAlreadyOver when now > end_time.
C4_TemporalGate ==
    [][(/\ MintStep
        /\ msg'.event \in DOMAIN EVENTS
        /\ msg'.sender = EVENTS[msg'.event].owner
        /\ addr_validate(msg'.attendee).ok
        /\ <<msg'.event, msg'.attendee>> \notin DOMAIN ATTENDEES)
       => LET data == EVENTS[msg'.event]
          IN  /\ now < data.start_time => res'.kind = "EventNotStarted"
              /\ (data.start_time <= now /\ now <= data.end_time)
                    => /\ res'.kind = "Ok"
                       /\ <<msg'.event, msg'.attendee>> \in DOMAIN ATTENDEES'
              /\ now > data.end_time => res'.kind = "EventAlreadyOver"]_vars

\* a mint that succeeded in the last second of the window
C4_Witness ==
    /\ Minted
    /\ res.ok
    /\ now = EVENTS[msg.event].end_time

\* C5. Registration uniqueness: a register of a name that EVENTS already
\* holds fails with EventAlreadyRegistered, for any caller, fields and time.
C5_RegisterOnce ==
    [][(RegisterStep /\ msg'.name \in DOMAIN EVENTS)
       => res'.kind = "EventAlreadyRegistered"]_vars

\* the owner registers the name again after the end of the event
C5_Witness ==
    /\ Registered
    /\ res.kind = "EventAlreadyRegistered"
    /\ msg.sender = EVENTS[msg.name].owner
    /\ now > EVENTS[msg.name].end_time

\* C6. State unchanged on error: a register or mint request that returns an
\* error leaves EVENTS, ATTENDEES and BADGES as they were.
C6_ErrorWritesNothing ==
    [][(msg = NoMsg /\ msg' # NoMsg /\ ~res'.ok)
       => UNCHANGED <<EVENTS, ATTENDEES, BADGES>>]_vars

\* a mint that failed on the duplicate check, the last check before the writes
C6_Witness ==
    /\ Minted
    /\ res.kind = "BadgeAlreadyIssued"
    /\ Cardinality(DOMAIN BADGES) >= 2

\* C7 as stated. Window validity at registration: register fails with
\* StartBeforeEnd whenever start_time >= end_time, whatever the name and the
\* image are, and with EventAlreadyOver whenever start_time < end_time and
\* end_time < now.
C7_AsStated ==
    Registered =>
        /\ msg.start_time >= msg.end_time => res.kind = "StartBeforeEnd"
        /\ (msg.start_time < msg.end_time /\ msg.end_time < now)
              => res.kind = "EventAlreadyOver"

\* C7 as amended. A register of a name that is not registered, is 2 to 100
\* bytes long and comes with an https:// image fails with StartBeforeEnd
\* whenever start_time >= end_time, and with EventAlreadyOver whenever
\* start_time < end_time and end_time < now.
C7_WindowValidity ==
    [][(/\ RegisterStep
        /\ msg'.name \notin DOMAIN EVENTS
        /\ LenOf[msg'.name] >= MinNameLen
        /\ LenOf[msg'.name] <= MaxNameLen
        /\ StartsWith(Text[msg'.image], HttpsScheme))
       => (/\ msg'.start_time >= msg'.end_time
                => res'.kind = "StartBeforeEnd"
           /\ (msg'.start_time < msg'.end_time /\ msg'.end_time < now)
                => res'.kind = "EventAlreadyOver")]_vars

\* a register with start_time = end_time was rejected as StartBeforeEnd
C7_Witness ==
    /\ Registered
    /\ msg.start_time = msg.end_time
    /\ res.kind = "StartBeforeEnd"

\* the error of the first rule a register request violates, in the order
\* registered, too short, too long, image, window, past
FirstViolatedRule(events, time, m) ==
    IF m.name \in DOMAIN events THEN "EventAlreadyRegistered"
    ELSE IF LenOf[m.name] < MinNameLen THEN "NameTooShort"
    ELSE IF LenOf[m.name] > MaxNameLen THEN "NameTooLong"
    ELSE IF ~StartsWith(Text[m.image], HttpsScheme) THEN "InvalidImageURL"
    ELSE IF m.start_time >= m.end_time THEN "StartBeforeEnd"
    ELSE IF m.end_time < time THEN "EventAlreadyOver"
    ELSE "Ok"

\* C8. Register validation precedence: register reports the error of the
\* first violated rule in the order name registered, name too short, name too
\* long, image not https://, start_time >= end_time, end_time < now.
C8_RegisterPrecedence ==
    [][RegisterStep => res'.kind = FirstViolatedRule(EVENTS, now, msg')]_vars

\* the request with name "x", image "http://foo" and start_time >= end_time
\* was rejected as NameTooShort
C8_Witness ==
    /\ Registered
    /\ msg.name = "x"
    /\ msg.image = "http"
    /\ msg.start_time >= msg.end_time
    /\ res.kind = "NameTooShort"

\* the error of the first check a mint request fails, in the order event
\* exists, caller is owner, started, not over, address, no badge yet
FirstFailingCheck(events, attendees, time, m) ==
    IF m.event \notin DOMAIN events THEN "NotFound"
    ELSE IF m.sender # events[m.event].owner THEN "Unauthorized"
    ELSE IF ~(time >= events[m.event].start_time) THEN "EventNotStarted"
    ELSE IF ~(time <= events[m.event].end_time) THEN "EventAlreadyOver"
    ELSE IF m.attendee \notin WellFormed THEN "GenericErr"
    ELSE IF <<m.event, m.attendee>> \in DOMAIN attendees
         THEN "BadgeAlreadyIssued"
    ELSE "Ok"

\* C9. Mint check ordering: mint reports the error of the first failing check
\* in the order event exists, caller is owner, now >= start_time,
\* now <= end_time, attendee well-formed, no badge yet for the pair.
C9_MintOrdering ==
    [][MintStep
       => res'.kind = FirstFailingCheck(EVENTS, ATTENDEES, now, msg')]_vars

\* a mint after the end of the event for a malformed attendee was rejected
\* as EventAlreadyOver
C9_Witness ==
    /\ Minted
    /\ msg.event \in DOMAIN EVENTS
    /\ msg.sender = EVENTS[msg.event].owner
    /\ now > EVENTS[msg.event].end_time
    /\ ~addr_validate(msg.attendee).ok
    /\ res.kind = "EventAlreadyOver"

\* C10. Event records are immutable: a record EVENTS holds under a name is
\* there, unchanged, after every step.
C10_EventsImmutable ==
    [][\A n \in DOMAIN EVENTS :
          n \in DOMAIN EVENTS' /\ EVENTS'[n] = EVENTS[n]]_vars

\* another caller tried to register the name with another window
C10_Witness ==
    /\ Registered
    /\ msg.name \in DOMAIN EVENTS
    /\ msg.sender # EVENTS[msg.name].owner
    /\ msg.start_time # EVENTS[msg.name].start_time
    /\ msg.end_time # EVENTS[msg.name].end_time
    /\ LenOf[msg.name] >= MinNameLen
    /\ res.kind = "EventAlreadyRegistered"

\* C11. Effect of a successful register: it adds one entry to EVENTS, under
\* the name of the request, whose owner is the caller and whose other fields
\* are the arguments; every other entry of EVENTS is unchanged.
C11_RegisterEffect ==
    [][(RegisterStep /\ res'.ok)
       => (/\ msg'.name \notin DOMAIN EVENTS
           /\ DOMAIN EVENTS' = DOMAIN EVENTS \cup {msg'.name}
           /\ EVENTS'[msg'.name]
                = [owner |-> msg'.sender, name |-> msg'.name,
                   image |-> msg'.image, description |-> msg'.description,
                   start_time |-> msg'.start_time,
                   end_time |-> msg'.end_time]
           /\ \A n \in DOMAIN EVENTS : EVENTS'[n] = EVENTS[n])]_vars

\* a register succeeded while EVENTS held a record of the other caller
C11_Witness ==
    /\ Registered
    /\ res.ok
    /\ \E n \in DOMAIN EVENTS : EVENTS[n].owner # msg.sender

\* the number of characters of each string of the model
CharsOf == [k \in DOMAIN Text |-> Len(Text[k])]

\* C12. Name length rule: with every other check passing, register accepts
\* a name exactly when it is 2 to 100 characters long, reports NameTooShort
\* for fewer than 2 characters and NameTooLong for more than 100, also for
\* names with characters of more than one byte.
C12_NameLengthInChars ==
    [][(/\ RegisterStep
        /\ msg'.name \notin DOMAIN EVENTS
        /\ StartsWith(Text[msg'.image], HttpsScheme)
        /\ msg'.start_time < msg'.end_time
        /\ msg'.end_time >= now)
       => (/\ res'.ok <=> (/\ CharsOf[msg'.name] >= MinNameLen
                           /\ CharsOf[msg'.name] <= MaxNameLen)
           /\ CharsOf[msg'.name] < MinNameLen => res'.kind = "NameTooShort"
           /\ CharsOf[msg'.name] > MaxNameLen => res'.kind = "NameTooLong")]_vars

\* C13. Mint for an unregistered event: a mint whose event has no record in
\* EVENTS fails with a not-found error, for any caller, attendee and time,
\* and writes no badge.
C13_MintUnknownEvent ==
    [][(MintStep /\ msg'.event \notin DOMAIN EVENTS)
       => (/\ res'.kind = "NotFound"
           /\ ~res'.ok
           /\ UNCHANGED <<ATTENDEES, BADGES>>)]_vars

\* an otherwise well-formed mint for a name without record, while another
\* event is registered and in its window
C13_Witness ==
    /\ Minted
    /\ msg.event \notin DOMAIN EVENTS
    /\ LenOf[msg.event] >= MinNameLen
    /\ LenOf[msg.event] <= MaxNameLen
    /\ addr_validate(msg.attendee).ok
    /\ \E n \in DOMAIN EVENTS :
          EVENTS[n].owner = msg.sender /\ InWindow(EVENTS[n])
    /\ res.kind = "NotFound"

\* C14. Count query after instantiation: after instantiate with count c the
\* GetCount query succeeds and returns c, and changes no stored state.
C14_CountQuery ==
    [][(msg = NoMsg /\ msg'.op = "get_count")
       => (/\ res'.ok
           /\ res'.count = instantiated.count
           /\ UNCHANGED <<EVENTS, ATTENDEES, BADGES, STATE_ITEM>>)]_vars

\* C15. Badge permanence: a badge present in ATTENDEES and BADGES is present
\* with the same value after every step; a pair only moves from absent to
\* issued.
C15_BadgesPermanent ==
    [][/\ \A k \in DOMAIN ATTENDEES :
             k \in DOMAIN ATTENDEES' /\ ATTENDEES'[k] = ATTENDEES[k]
       /\ \A k \in DOMAIN BADGES :
             k \in DOMAIN BADGES' /\ BADGES'[k] = BADGES[k]]_vars

\* a register succeeded after a badge was issued
C15_Witness ==
    /\ Registered
    /\ res.ok
    /\ DOMAIN ATTENDEES # {}
    /\ DOMAIN BADGES # {}

\* C16. Stored events are well-formed: every record of EVENTS has
\* start_time < end_time, an end_time not before the time of the request that
\* registered it, a name of 2 to 100 characters that is the key it is stored
\* under, and an image that begins with https://.
C16_StoredEventsWellFormed ==
    /\ \A n \in DOMAIN EVENTS :
          /\ EVENTS[n].start_time < EVENTS[n].end_time
          /\ EVENTS[n].name = n
          /\ CharsOf[n] >= MinNameLen
          /\ CharsOf[n] <= MaxNameLen
          /\ StartsWith(Text[EVENTS[n].image], HttpsScheme)
    /\ (Registered /\ res.ok) => EVENTS[msg.name].end_time >= now

\* C17. Registration time boundary: a register of a name without record that
\* passes the length check, with an https:// image and start_time < end_time,
\* succeeds whenever end_time >= now, also when end_time = now and when
\* start_time < now; it is rejected, as EventAlreadyOver, only when
\* end_time < now.
C17_RegisterTimeBoundary ==
    [][(/\ RegisterStep
        /\ msg'.name \notin DOMAIN EVENTS
        /\ LenOf[msg'.name] >= MinNameLen
        /\ LenOf[msg'.name] <= MaxNameLen
        /\ StartsWith(Text[msg'.image], HttpsScheme)
        /\ msg'.start_time < msg'.end_time)
       => (/\ msg'.end_time >= now
                => res'.ok /\ msg'.name \in DOMAIN EVENTS'
           /\ msg'.end_time < now
                => res'.kind = "EventAlreadyOver" /\ EVENTS' = EVENTS)]_vars

\* a register succeeded with end_time = now and start_time in the past
C17_Witness ==
    /\ Registered
    /\ res.ok
    /\ msg.end_time = now
    /\ msg.start_time < now

\* C18. Referential integrity of badges: every key of ATTENDEES and every key
\* of BADGES names an event that has a record in EVENTS.
C18_BadgesNameEvents ==
    /\ \A k \in DOMAIN ATTENDEES : k[1] \in DOMAIN EVENTS
    /\ \A k \in DOMAIN BADGES : k[2] \in DOMAIN EVENTS

\* badges of two events of different owners
C18_Witness ==
    \E k1 \in DOMAIN ATTENDEES, k2 \in DOMAIN BADGES :
        /\ k1[1] # k2[2]
        /\ EVENTS[k1[1]].owner # EVENTS[k2[2]].owner

\* C19. Provenance of badges: an entry of ATTENDEES or BADGES appears or
\* changes only in a mint request for its pair whose caller is the owner of
\* the event and whose time lies in the window of the event; the maps are
\* empty after instantiation.
C19_BadgeProvenance ==
    [][LET WrittenBy(e, a) ==
               /\ MintStep
               /\ msg'.event = e
               /\ msg'.attendee = a
               /\ e \in DOMAIN EVENTS
               /\ msg'.sender = EVENTS[e].owner
               /\ EVENTS[e].start_time <= now
               /\ now <= EVENTS[e].end_time
       IN  /\ \A k \in DOMAIN ATTENDEES' :
                 (k \in DOMAIN ATTENDEES => ATTENDEES'[k] # ATTENDEES[k])
                    => WrittenBy(k[1], k[2])
           /\ \A k \in DOMAIN BADGES' :
                 (k \in DOMAIN BADGES => BADGES'[k] # BADGES[k])
                    => WrittenBy(k[2], k[1])]_vars

\* the owner minted a badge in the first second of the window
C19_Witness ==
    /\ Minted
    /\ res.ok
    /\ msg.sender = EVENTS[msg.event].owner
    /\ now = EVENTS[msg.event].start_time
    /\ <<msg.event, msg.attendee>> \in DOMAIN ATTENDEES

\* C20. Frame of the operations: a register request changes neither
\* ATTENDEES nor BADGES; a mint request does not change EVENTS; a successful
\* mint for (event, attendee) changes only ATTENDEES[(event, attendee)] and
\* BADGES[(attendee, event)].
C20_Frame ==
    [][/\ RegisterStep => UNCHANGED <<ATTENDEES, BADGES>>
       /\ MintStep => UNCHANGED EVENTS
       /\ (MintStep /\ res'.ok)
            => (/\ DOMAIN ATTENDEES'
                     = DOMAIN ATTENDEES \cup {<<msg'.event, msg'.attendee>>}
                /\ DOMAIN BADGES'
                     = DOMAIN BADGES \cup {<<msg'.attendee, msg'.event>>}
                /\ \A k \in DOMAIN ATTENDEES \ {<<msg'.event, msg'.attendee>>} :
                      ATTENDEES'[k] = ATTENDEES[k]
                /\ \A k \in DOMAIN BADGES \ {<<msg'.attendee, msg'.event>>} :
                      BADGES'[k] = BADGES[k])]_vars

\* a mint succeeded while another pair held a badge with the other was_late
C20_Witness ==
    /\ Minted
    /\ res.ok
    /\ \E k \in DOMAIN BADGES :
          /\ k # <<msg.attendee, msg.event>>
          /\ BADGES[k].was_late # msg.was_late

====
